---- MODULE Spec2Model ----
(***************************************************************************)
(* State-machine model of the llama-chat repository:                       *)
(*   - LlamaChat (src/src/llama-chat.cpp): a conversation history and the  *)
(*     streaming generation loop behind LlamaChat::Prompt;                 *)
(*   - LlamaWrapper (src/src/llama-wrapper.cpp): the stateless             *)
(*     RunQueryStream with textual stop markers.                           *)
(* Text is a sequence of one-character strings, so that substring search   *)
(* (std::string::find) and concatenation are computed, not assumed.        *)
(* The inference engine (llama.cpp) is external: the result of             *)
(* llama_tokenize, of llama_decode and of the sampler are inputs chosen    *)
(* nondeterministically at each call.  The model starts after a            *)
(* successful InitializeModel / InitializeContext.                         *)
(***************************************************************************)
EXTENDS Integers, Sequences, FiniteSets, TLC

\* ------------------------------------------------------------------------
\* Bounds of the model
\* ------------------------------------------------------------------------
\* longest conversation history a Prompt call may produce
MaxHistory == 3
\* largest number of tokens llama_tokenize returns for a prompt
MaxPromptTokens == 2
\* largest value of SamplingParams::maxTokens
MaxMaxTokens == 3

\* ------------------------------------------------------------------------
\* Text: std::string as a sequence of characters
\* ------------------------------------------------------------------------
Npos == -1

\* std::string::find(needle): 0-based index of the first occurrence, or npos
Find(hay, needle) ==
  LET n == Len(needle)
      hits == { i \in 0..(Len(hay) - n) : SubSeq(hay, i + 1, i + n) = needle }
  IN IF hits = {} THEN Npos
     ELSE CHOOSE i \in hits : \A j \in hits : i <= j

\* std::string::substr(0, pos)
Substr0(s, pos) == SubSeq(s, 1, pos)

RECURSIVE Concat(_)
\* in-order concatenation of a sequence of texts
Concat(ss) == IF ss = <<>> THEN <<>> ELSE Head(ss) \o Concat(Tail(ss))

BeginOfText == <<"<", "|", "b", "e", "g", "i", "n", "_", "o", "f", "_", "t", "e", "x", "t", "|", ">">>
EndOfText == <<"<", "|", "e", "n", "d", "_", "o", "f", "_", "t", "e", "x", "t", "|", ">">>
StartHeaderId == <<"<", "|", "s", "t", "a", "r", "t", "_", "h", "e", "a", "d", "e", "r", "_", "i", "d", "|", ">">>
EndHeaderId == <<"<", "|", "e", "n", "d", "_", "h", "e", "a", "d", "e", "r", "_", "i", "d", "|", ">">>
EotId == <<"<", "|", "e", "o", "t", "_", "i", "d", "|", ">">>

\* the strings tested by LlamaChat::Impl::IsSpecialToken
specialTokens == <<BeginOfText, EndOfText, StartHeaderId, EndHeaderId, EotId>>

\* the stop sequences searched by LlamaWrapper::Impl::RunQueryStream
UserMarker == <<"\n", "U", "s", "e", "r", ":">>
AssistantMarker == <<"\n", "A", "s", "s", "i", "s", "t", "a", "n", "t", ":">>

\* the characters written for Message::role
RoleText ==
  [ system    |-> <<"s", "y", "s", "t", "e", "m">>,
    user      |-> <<"u", "s", "e", "r">>,
    assistant |-> <<"a", "s", "s", "i", "s", "t", "a", "n", "t">> ]

\* ------------------------------------------------------------------------
\* The engine's vocabulary (a small sample of it)
\* ------------------------------------------------------------------------
TokEos == 0
TokEot == 1
TokA == 2
TokEmpty == 3
TokNlUs == 4
TokErColon == 5
TokNlAssistant == 6
TokColonNlUser == 7
TokEotHead == 8
TokEotTail == 9
TokColon == 10

\* text of each token; control tokens render only when special = true
Vocab ==
  [ t \in TokEos..TokColon |->
      CASE t = TokEos         -> [control |-> TRUE,  text |-> EndOfText]
        [] t = TokEot         -> [control |-> TRUE,  text |-> EotId]
        [] t = TokA           -> [control |-> FALSE, text |-> <<"a">>]
        [] t = TokEmpty       -> [control |-> FALSE, text |-> <<>>]
        [] t = TokNlUs        -> [control |-> FALSE, text |-> <<"\n", "U", "s">>]
        [] t = TokErColon     -> [control |-> FALSE, text |-> <<"e", "r", ":">>]
        [] t = TokNlAssistant -> [control |-> FALSE,
                                  text |-> <<"\n", "A", "s", "s", "i", "s", "t", "a", "n", "t">>]
        [] t = TokColonNlUser -> [control |-> FALSE,
                                  text |-> <<":", "\n", "U", "s", "e", "r", ":">>]
        [] t = TokEotHead     -> [control |-> FALSE, text |-> <<"<", "|", "e", "o", "t">>]
        [] t = TokEotTail     -> [control |-> FALSE, text |-> <<"_", "i", "d", "|", ">">>]
        [] OTHER              -> [control |-> FALSE, text |-> <<":">>] ]

TokenIds == DOMAIN Vocab

\* llama_token_to_piece(ctx, token, special)
llama_token_to_piece(token, special) ==
  IF Vocab[token].control /\ ~special THEN <<>> ELSE Vocab[token].text

\* llama_token_eos(model)
llama_token_eos == TokEos

\* eotToken, set by InitializeContext from Encode("<|eot_id|>", false, true)
eotToken == TokEot

\* llama_token_is_eog(model, token): the engine's end-of-generation set
llama_token_is_eog(token) == token \in {TokEos, TokEot}

\* ------------------------------------------------------------------------
\* Inputs
\* ------------------------------------------------------------------------
UserMessages == { <<"h", "i">>, <<"y", "o">> }
SystemPrompts == { <<"B", "e", " ", "t", "e", "r", "s", "e", ".">> }

\* return values of llama_tokenize: a negative count is a failure
TokenizeResults == {-1} \cup (1..MaxPromptTokens)
\* return values of llama_decode: 0 is success
DecodeResults == {0, 1}
\* llama_decode rejects a batch that holds no token
llama_decode(b) == IF b = <<>> THEN {1} ELSE DecodeResults
\* values of SamplingParams::maxTokens
MaxTokensValues == 1..MaxMaxTokens
\* SamplingParams as default-constructed; the float fields are in hundredths
\* (temperature 0.8 is 80), maxTokens is scaled down to the largest budget
DefaultSamplingParams ==
  [ maxTokens |-> MaxMaxTokens, temperature |-> 80, topK |-> 45, topP |-> 95,
    repeatPenalty |-> 110, frequencyPenalty |-> 0, presencePenalty |-> 0,
    repeatPenaltyTokens |-> <<>> ]
\* the SamplingParams passed to a generation call: every token budget with
\* the default sampling fields, and two settings no sampler can honour, a
\* topP above 1 and a negative temperature
SamplingParamsValues ==
  { [DefaultSamplingParams EXCEPT !.maxTokens = mt] : mt \in MaxTokensValues }
  \cup { [DefaultSamplingParams EXCEPT !.maxTokens = 1, !.topP = 150],
         [DefaultSamplingParams EXCEPT !.maxTokens = 1, !.temperature = -10] }
\* what a write past the end of the batch arrays may do
OverflowOutcomes == {"continue", "abort"}

\* the token ids Encode returns stand for the prompt's tokens
PromptToken == TokA

\* histories passed to LlamaWrapper::RunQueryStream: pairs of any role string
\* and a message
WrapperHistories ==
  { <<>>,
    << <<"system", <<"x">> >>, <<"user", <<"h", "i">> >>, <<"assistant", <<"a">> >> >> }

\* the class the host program is built on; the two headers define the same
\* types, so one program uses one of them.  "SampleToken" is not a program:
\* it applies the private function SampleToken to logits and SamplingParams
\* drawn by Init
Programs == {"LlamaChat", "LlamaWrapper", "SampleToken"}

\* SampleToken applied on its own: llama_n_vocab is 3, the token ids are
\* 0..2
SamplerVocab == {TokEos, TokEot, TokA}
\* values of llama_get_logits, in hundredths
LogitValues == {-100, 100, 200}
\* logits of a context that has evaluated nothing
NoLogits == [id \in SamplerVocab |-> 0]
\* the SamplingParams SampleToken is applied to: topK 1 and 2, topP below,
\* at and above 1, temperature negative, zero and positive, with and
\* without a penalty window
SamplerParamsValues ==
  { [DefaultSamplingParams EXCEPT !.topK = k, !.topP = p, !.temperature = t,
                                  !.repeatPenalty = 200, !.frequencyPenalty = 50,
                                  !.repeatPenaltyTokens = w] :
      k \in {1, 2}, p \in {50, 100, 150}, t \in {-10, 0, 80},
      w \in {<<>>, <<TokA>>} }

\* the tokens the sampler is made to return: those whose text the loop of
\* the class reacts to, and one plain token
SampledTokens(prog) ==
  IF prog = "LlamaChat"
    THEN {TokEos, TokEot, TokA, TokEmpty, TokEotHead, TokEotTail}
    ELSE {TokEos, TokEot, TokA, TokNlUs, TokErColon, TokNlAssistant, TokColonNlUser,
          TokColon}

\* ------------------------------------------------------------------------
\* Pure functions of LlamaChat::Impl
\* ------------------------------------------------------------------------
\* Message{role, content}
Message(role, content) == [role |-> role, content |-> content]

\* AddUserMessage: conversationHistory.push_back({"user", message})
AddUserMessage(hist, message) == Append(hist, Message("user", message))

RECURSIVE RenderTurns(_)
\* the loop of BuildPrompt over conversationHistory
RenderTurns(hist) ==
  IF hist = <<>> THEN <<>>
  ELSE StartHeaderId \o RoleText[Head(hist).role] \o EndHeaderId
       \o Head(hist).content \o EotId \o RenderTurns(Tail(hist))

\* BuildPrompt
BuildPrompt(hist) ==
  BeginOfText \o RenderTurns(hist)
  \o StartHeaderId \o RoleText["assistant"] \o EndHeaderId

\* variant: the piece is compared with each special token
IsSpecialToken_Equals(p) ==
  \E i \in DOMAIN specialTokens : p = specialTokens[i]

\* IsSpecialToken: piece.find(token) != npos for some special token
IsSpecialToken(p) ==
  \E i \in DOMAIN specialTokens : Find(p, specialTokens[i]) # Npos

\* Encode: an empty vector when llama_tokenize reports a negative count,
\* otherwise the nTokens tokens it wrote
Encode(nTokens) ==
  IF nTokens < 0 THEN <<>> ELSE [i \in 1..nTokens |-> PromptToken]

\* llama_batch_add in the prefill loop: token i at position i, logits off
PrefillBatch(tokens) ==
  [i \in 1..Len(tokens) |-> [id |-> tokens[i], pos |-> i - 1, logits |-> FALSE]]

\* variant: the token is added at the position after the cursor
StepBatch_NextPos(token, n) == << [id |-> token, pos |-> n + 1, logits |-> TRUE] >>

\* llama_batch_clear; llama_batch_add(batch, token, nCur, {0}, true)
StepBatch(token, n) == << [id |-> token, pos |-> n, logits |-> TRUE] >>

\* variant: the loop runs while nCur <= params.maxTokens
LoopContinues_Inclusive(n, mt) == n <= mt

\* the condition of the decode loop: while (nCur < params.maxTokens)
LoopContinues(n, mt) == n < mt

\* the test that ends LlamaChat's loop: new_token.tokenId == eotToken
ChatIsEnd(token) == token = eotToken

\* variant: the loop flushes any non-empty text
ShouldFlush_NoSpecialCheck(cp) == cp # <<>>

\* the test that flushes currentPiece in LlamaChat's loop
ShouldFlush(cp) == ~IsSpecialToken(cp) /\ cp # <<>>

\* variant: the assistant message is pushed on every way out of the function
HistoryAtExit_Always(hist, resp, thrown) ==
  Append(hist, Message("assistant", resp))

\* conversationHistory when RunQueryStream is left: the push_back of the
\* assistant message after the loop runs unless an exception left the function
HistoryAtExit(hist, resp, thrown) ==
  IF thrown THEN hist ELSE Append(hist, Message("assistant", resp))

\* the lambda Prompt passes to RunQueryStream: forwards a piece to the
\* caller's callback unless it is special
PromptCallback(fragments, p) ==
  IF ~IsSpecialToken(p) THEN Append(fragments, p) ELSE fragments

\* ------------------------------------------------------------------------
\* Pure functions of LlamaWrapper::Impl
\* ------------------------------------------------------------------------
RECURSIVE WrapperTurns(_)
\* the loop of RunQueryStream over conversationHistory (pairs role, message)
WrapperTurns(hist) ==
  IF hist = <<>> THEN <<>>
  ELSE LET role == Head(hist)[1]
           message == Head(hist)[2]
       IN (IF role = "user"
             THEN <<"U", "s", "e", "r", ":", " ">> \o message \o <<"\n">>
           ELSE IF role = "assistant"
             THEN <<"A", "s", "s", "i", "s", "t", "a", "n", "t", ":", " ">>
                  \o message \o <<"\n">>
           ELSE <<>>)
          \o WrapperTurns(Tail(hist))

\* fullPrompt of LlamaWrapper::RunQueryStream
WrapperPrompt(systemPrompt, hist) ==
  systemPrompt \o <<"\n", "\n">> \o WrapperTurns(hist)
  \o <<"A", "s", "s", "i", "s", "t", "a", "n", "t", ":", " ">>

\* the stop test on generatedText
StopFound(text) ==
  Find(text, UserMarker) # Npos \/ Find(text, AssistantMarker) # Npos

\* the position the stop sequence is removed from
StopPos(text) ==
  IF Find(text, UserMarker) = Npos
    THEN Find(text, AssistantMarker)
    ELSE Find(text, UserMarker)

\* variant: the stop sequence is left in the text
TruncateAtStop_NoCut(text) == text

\* generatedText.substr(0, pos)
TruncateAtStop(text) == Substr0(text, StopPos(text))

\* the test that ends LlamaWrapper's loop
WrapperIsEnd(token) == token = llama_token_eos

\* ------------------------------------------------------------------------
\* SampleToken (the same in LlamaChat::Impl and LlamaWrapper::Impl)
\* ------------------------------------------------------------------------
\* number of occurrences of x in seq
Count(seq, x) == Cardinality({i \in DOMAIN seq : seq[i] = x})

\* llama_sample_repetition_penalties: a candidate that occurs in lastTokens
\* has its logit multiplied by the repeat penalty if it is not positive and
\* divided by it otherwise, and then lowered by the frequency penalty for
\* each occurrence and by the presence penalty (penalties in hundredths)
llama_sample_repetition_penalties(score, lastTokens, repeat, freq, present) ==
  [id \in DOMAIN score |->
     LET count == Count(lastTokens, id)
         l == score[id]
     IN IF count = 0 THEN l
        ELSE (IF l <= 0 THEN (l * repeat) \div 100
                        ELSE (l * 100) \div repeat)
             - (count * freq + present)]

\* the sets of n candidates that a sort by descending score can put first;
\* equal scores may come out in either order
TopSets(ids, score, n) ==
  { S \in SUBSET ids :
      /\ Cardinality(S) = n
      /\ \A a \in S, b \in ids \ S : score[a] >= score[b] }

\* llama_sample_top_k: keep the max(k, min_keep) candidates of highest score
llama_sample_top_k(ids, score, k, minKeep) ==
  LET k1 == IF k < minKeep THEN minKeep ELSE k
      k2 == IF k1 > Cardinality(ids) THEN Cardinality(ids) ELSE k1
  IN TopSets(ids, score, k2)

\* llama_sample_top_p: nothing is removed for p >= 1; otherwise the shortest
\* run of the candidates by descending score whose probabilities add up to
\* p is kept, at least min_keep of them.  The probabilities are not
\* modelled: every such run is a possible result; for p <= 0 the run stops
\* at min_keep
llama_sample_top_p(ids, score, p, minKeep) ==
  IF p >= 100 THEN {ids}
  ELSE IF p <= 0 THEN TopSets(ids, score, minKeep)
  ELSE UNION { TopSets(ids, score, n) : n \in minKeep..Cardinality(ids) }

\* llama_sample_temp divides the logits by the temperature: the candidates
\* stay the same
llama_sample_temp(ids, temp) == ids

\* llama_sample_token draws one of the candidates
llama_sample_token(ids) == ids

\* the candidates' scores when they enter llama_sample_top_k
PenalisedScore(lg, sp) ==
  IF sp.repeatPenaltyTokens # <<>>
    THEN llama_sample_repetition_penalties(lg, sp.repeatPenaltyTokens,
           sp.repeatPenalty, sp.frequencyPenalty, sp.presencePenalty)
    ELSE lg

\* variant: the top-k stage is left out
SampleToken_NoTopK(lg, sp) ==
  LET score == PenalisedScore(lg, sp)
  IN UNION { llama_sample_token(llama_sample_temp(T, sp.temperature)) :
               T \in llama_sample_top_p(DOMAIN lg, score, sp.topP, 1) }

\* SampleToken: the tokens it can return for the logits lg
SampleToken(lg, sp) ==
  LET score == PenalisedScore(lg, sp)
  IN UNION { UNION { llama_sample_token(llama_sample_temp(T, sp.temperature)) :
                       T \in llama_sample_top_p(S, score, sp.topP, 1) } :
               S \in llama_sample_top_k(DOMAIN lg, score, sp.topK, 1) }

\* ------------------------------------------------------------------------
\* State
\* ------------------------------------------------------------------------
VARIABLES
  program,             \* the class in use: "LlamaChat" or "LlamaWrapper"
  conversationHistory, \* LlamaChat::Impl::conversationHistory
  pc,                  \* "idle", or the loop a call is in: "chat", "wrapper";
                       \* "aborted" once the process is killed
  prompt,              \* the prompt text rendered by the call
  params,              \* the SamplingParams argument of the call
  logits,              \* SampleToken on its own: what llama_get_logits returns
  history,             \* LlamaWrapper: the history argument of the call
  maxTokens,           \* params.maxTokens of the call
  batch,               \* the tokens in the llama_batch
  batchState,          \* "none", "allocated" or "freed"
  nCur,                \* the position cursor
  assistantResponse,   \* LlamaChat: text accumulated for the assistant turn
  currentPiece,        \* LlamaChat: text not yet flushed to the callback
  generatedText,       \* LlamaWrapper: text accumulated
  stopGeneration,      \* LlamaWrapper: a stop sequence was found
  \* what an observer of the call sees
  op,                  \* the operation that took the last step
  outcome,             \* "none" while running, "returned", "runtime_error"
  stderrMsg,           \* last message the call wrote to std::cerr
  argument,            \* text argument of the call: the user message of
                       \* Prompt, the system prompt of the other calls
  historyBefore,       \* conversationHistory when the call started
  nTokens,             \* value llama_tokenize returned
  nPrompt,             \* number of prompt tokens put in the prefill batch
  fragments,           \* texts passed to the caller's callback, in order
  nSampled,            \* number of SampleToken calls of the generation call
  nDecode,             \* number of llama_decode calls
  newToken,            \* last sampled token
  piece,               \* last decoded piece
  rawText              \* concatenation of all decoded pieces

vars ==
  << program, conversationHistory, pc, prompt, params, logits, history,
     maxTokens, batch, batchState, nCur,
     assistantResponse, currentPiece, generatedText, stopGeneration,
     op, outcome, stderrMsg, argument, historyBefore, nTokens, nPrompt,
     fragments, nSampled, nDecode, newToken, piece, rawText >>

Init ==
  /\ program \in Programs
  /\ IF program = "SampleToken"
       THEN logits \in [SamplerVocab -> LogitValues] /\ params \in SamplerParamsValues
       ELSE logits = NoLogits /\ params = DefaultSamplingParams
  /\ conversationHistory = <<>>
  /\ pc = "idle"
  /\ prompt = <<>>
  /\ history = <<>>
  /\ maxTokens = 0
  /\ batch = <<>>
  /\ batchState = "none"
  /\ nCur = 0
  /\ assistantResponse = <<>>
  /\ currentPiece = <<>>
  /\ generatedText = <<>>
  /\ stopGeneration = FALSE
  /\ op = "init"
  /\ outcome = "none"
  /\ stderrMsg = "none"
  /\ argument = <<>>
  /\ historyBefore = <<>>
  /\ nTokens = 0
  /\ nPrompt = 0
  /\ fragments = <<>>
  /\ nSampled = 0
  /\ nDecode = 0
  /\ newToken = TokA
  /\ piece = <<>>
  /\ rawText = <<>>

\* the locals of a generation call, as a call that has not started leaves them
CallLocalsReset ==
  /\ prompt' = <<>>
  /\ params' = DefaultSamplingParams
  /\ history' = <<>>
  /\ UNCHANGED logits
  /\ maxTokens' = 0
  /\ batch' = <<>>
  /\ batchState' = "none"
  /\ nCur' = 0
  /\ assistantResponse' = <<>>
  /\ currentPiece' = <<>>
  /\ generatedText' = <<>>
  /\ stopGeneration' = FALSE
  /\ stderrMsg' = "none"
  /\ nTokens' = 0
  /\ nPrompt' = 0
  /\ fragments' = <<>>
  /\ nSampled' = 0
  /\ nDecode' = 0
  /\ newToken' = TokA
  /\ piece' = <<>>
  /\ rawText' = <<>>

\* ------------------------------------------------------------------------
\* LlamaChat: conversation operations
\* ------------------------------------------------------------------------
\* variant: the system message is pushed without clearing the history
SetSystemPrompt_NoClear(systemPrompt) ==
  /\ program = "LlamaChat"
  /\ pc = "idle"
  /\ Len(conversationHistory) < MaxHistory
  /\ conversationHistory' = Append(conversationHistory, Message("system", systemPrompt))
  /\ op' = "SetSystemPrompt"
  /\ outcome' = "returned"
  /\ argument' = systemPrompt
  /\ historyBefore' = conversationHistory
  /\ pc' = "idle"
  /\ CallLocalsReset
  /\ UNCHANGED program

\* variant: the system message replaces only an earlier system message
SetSystemPrompt_KeepTurns(systemPrompt) ==
  /\ program = "LlamaChat"
  /\ pc = "idle"
  /\ conversationHistory' =
       << Message("system", systemPrompt) >>
       \o SelectSeq(conversationHistory, LAMBDA m : m.role # "system")
  /\ op' = "SetSystemPrompt"
  /\ outcome' = "returned"
  /\ argument' = systemPrompt
  /\ historyBefore' = conversationHistory
  /\ pc' = "idle"
  /\ CallLocalsReset
  /\ UNCHANGED program

\* SetSystemPrompt: clear the history, push the system message
SetSystemPrompt(systemPrompt) ==
  /\ program = "LlamaChat"
  /\ pc = "idle"
  /\ conversationHistory' = << Message("system", systemPrompt) >>
  /\ op' = "SetSystemPrompt"
  /\ outcome' = "returned"
  /\ argument' = systemPrompt
  /\ historyBefore' = conversationHistory
  /\ pc' = "idle"
  /\ CallLocalsReset
  /\ UNCHANGED program

\* ResetConversation: clear the history
ResetConversation ==
  /\ program = "LlamaChat"
  /\ pc = "idle"
  /\ conversationHistory' = <<>>
  /\ op' = "ResetConversation"
  /\ outcome' = "returned"
  /\ argument' = <<>>
  /\ historyBefore' = conversationHistory
  /\ pc' = "idle"
  /\ CallLocalsReset
  /\ UNCHANGED program

\* ------------------------------------------------------------------------
\* LlamaChat: Prompt and its decode loop
\* ------------------------------------------------------------------------
\* Prompt up to the first sampling step: AddUserMessage, then RunQueryStream's
\* BuildPrompt, Encode, llama_batch_init, prefill llama_batch_add loop and
\* llama_decode.  message and sp are the caller's arguments; nTok is what
\* llama_tokenize returns, rc what llama_decode returns, ub what happens when
\* the prefill loop writes past the maxTokens entries of the batch.
Prompt(message, sp, nTok, rc, ub) ==
  /\ program = "LlamaChat"
  /\ pc = "idle"
  /\ Len(conversationHistory) + 2 <= MaxHistory
  /\ LET hist1 == AddUserMessage(conversationHistory, message)
         mt == sp.maxTokens
         tokens == Encode(nTok)
         overflow == Len(tokens) > mt
         n1 == Len(tokens)
     IN
     /\ ub = "continue" \/ overflow
     /\ rc \in llama_decode(PrefillBatch(tokens))
     /\ op' = "Prompt"
     /\ UNCHANGED program
     /\ argument' = message
     /\ historyBefore' = conversationHistory
     /\ prompt' = BuildPrompt(hist1)
     /\ params' = sp
     /\ history' = <<>>
     /\ UNCHANGED logits
     /\ nTokens' = nTok
     /\ nPrompt' = Len(tokens)
     /\ maxTokens' = mt
     /\ stderrMsg' = IF nTok < 0 THEN "Tokenization failed with error code" ELSE "none"
     /\ batch' = PrefillBatch(tokens)
     /\ assistantResponse' = <<>>
     /\ currentPiece' = <<>>
     /\ generatedText' = <<>>
     /\ stopGeneration' = FALSE
     /\ fragments' = <<>>
     /\ nSampled' = 0
     /\ newToken' = TokA
     /\ piece' = <<>>
     /\ rawText' = <<>>
     /\ IF overflow /\ ub = "abort"
          THEN \* the out-of-bounds write kills the process
               /\ pc' = "aborted"
               /\ outcome' = "aborted"
               /\ conversationHistory' = hist1
               /\ batchState' = "allocated"
               /\ nDecode' = 0
               /\ nCur' = 0
        ELSE IF rc # 0
          THEN \* throw std::runtime_error("llama_decode() failed")
               /\ pc' = "idle"
               /\ outcome' = "runtime_error"
               /\ conversationHistory' = HistoryAtExit(hist1, <<>>, TRUE)
               /\ batchState' = "allocated"
               /\ nDecode' = 1
               /\ nCur' = 0
        ELSE IF LoopContinues(n1, mt)
          THEN /\ pc' = "chat"
               /\ outcome' = "none"
               /\ conversationHistory' = hist1
               /\ batchState' = "allocated"
               /\ nDecode' = 1
               /\ nCur' = n1
          ELSE \* the loop body never runs
               /\ pc' = "idle"
               /\ outcome' = "returned"
               /\ conversationHistory' = HistoryAtExit(hist1, <<>>, FALSE)
               /\ batchState' = "freed"
               /\ nDecode' = 1
               /\ nCur' = n1

\* One iteration of the loop of LlamaChat::Impl::RunQueryStream, up to the
\* next evaluation of the loop condition, and the code after the loop when
\* the loop ends.  token is what SampleToken returns, rc what llama_decode
\* returns.
ChatDecode(token, rc) ==
  /\ pc = "chat"
  /\ LoopContinues(nCur, maxTokens)
  /\ op' = "ChatDecode"
  /\ nSampled' = nSampled + 1
  /\ newToken' = token
  /\ UNCHANGED << program, prompt, params, logits, history, maxTokens, generatedText, stopGeneration, stderrMsg,
                  argument, historyBefore, nTokens, nPrompt >>
  /\ IF ChatIsEnd(token)
       THEN \* break; llama_batch_free; push the assistant message
            /\ pc' = "idle"
            /\ outcome' = "returned"
            /\ conversationHistory' =
                 HistoryAtExit(conversationHistory, assistantResponse, FALSE)
            /\ batchState' = "freed"
            /\ UNCHANGED << batch, nCur, assistantResponse, currentPiece,
                            fragments, nDecode, piece, rawText >>
       ELSE LET p == llama_token_to_piece(token, TRUE)
                cp == currentPiece \o p
                flush == ShouldFlush(cp)
                resp == IF flush THEN assistantResponse \o cp ELSE assistantResponse
                n1 == nCur + 1
            IN
            /\ piece' = p
            /\ rawText' = rawText \o p
            /\ fragments' = IF flush THEN PromptCallback(fragments, cp) ELSE fragments
            /\ assistantResponse' = resp
            /\ currentPiece' = IF flush THEN <<>> ELSE cp
            /\ batch' = StepBatch(token, nCur)
            /\ rc \in llama_decode(StepBatch(token, nCur))
            /\ nCur' = n1
            /\ nDecode' = nDecode + 1
            /\ IF rc # 0
                 THEN \* throw std::runtime_error("Failed to evaluate")
                      /\ pc' = "idle"
                      /\ outcome' = "runtime_error"
                      /\ conversationHistory' =
                           HistoryAtExit(conversationHistory, resp, TRUE)
                      /\ UNCHANGED batchState
               ELSE IF LoopContinues(n1, maxTokens)
                 THEN /\ pc' = "chat"
                      /\ outcome' = "none"
                      /\ UNCHANGED << conversationHistory, batchState >>
                 ELSE /\ pc' = "idle"
                      /\ outcome' = "returned"
                      /\ conversationHistory' =
                           HistoryAtExit(conversationHistory, resp, FALSE)
                      /\ batchState' = "freed"

\* ------------------------------------------------------------------------
\* LlamaWrapper: RunQueryStream and its decode loop
\* ------------------------------------------------------------------------
\* RunQueryStream up to the first sampling step: the prompt, Encode, the
\* empty-tokens return, llama_batch_init, the prefill loop and llama_decode.
RunQueryStream(systemPrompt, hist, sp, nTok, rc, ub) ==
  /\ program = "LlamaWrapper"
  /\ pc = "idle"
  /\ LET tokens == Encode(nTok)
         mt == sp.maxTokens
         overflow == Len(tokens) > mt
         n1 == Len(tokens)
     IN
     /\ ub = "continue" \/ overflow
     /\ op' = "RunQueryStream"
     /\ UNCHANGED program
     /\ argument' = systemPrompt
     /\ historyBefore' = conversationHistory
     /\ UNCHANGED conversationHistory
     /\ prompt' = WrapperPrompt(systemPrompt, hist)
     /\ params' = sp
     /\ history' = hist
     /\ UNCHANGED logits
     /\ nTokens' = nTok
     /\ maxTokens' = mt
     /\ assistantResponse' = <<>>
     /\ currentPiece' = <<>>
     /\ generatedText' = <<>>
     /\ stopGeneration' = FALSE
     /\ fragments' = <<>>
     /\ nSampled' = 0
     /\ newToken' = TokA
     /\ piece' = <<>>
     /\ rawText' = <<>>
     /\ IF tokens = <<>>
          THEN \* "Tokenization of the prompt failed."; return
               \* (llama_decode is not reached: rc is not used)
               /\ rc = 0
               /\ ub = "continue"
               /\ pc' = "idle"
               /\ outcome' = "returned"
               /\ stderrMsg' = "Tokenization of the prompt failed"
               /\ batch' = <<>>
               /\ batchState' = "none"
               /\ nPrompt' = 0
               /\ nDecode' = 0
               /\ nCur' = 0
        ELSE IF overflow /\ ub = "abort"
          THEN /\ pc' = "aborted"
               /\ outcome' = "aborted"
               /\ stderrMsg' = "none"
               /\ batch' = PrefillBatch(tokens)
               /\ batchState' = "allocated"
               /\ nPrompt' = n1
               /\ nDecode' = 0
               /\ nCur' = 0
        ELSE IF rc # 0
          THEN \* "llama_decode() failed"; return
               /\ pc' = "idle"
               /\ outcome' = "returned"
               /\ stderrMsg' = "llama_decode() failed"
               /\ batch' = PrefillBatch(tokens)
               /\ batchState' = "allocated"
               /\ nPrompt' = n1
               /\ nDecode' = 1
               /\ nCur' = 0
        ELSE /\ stderrMsg' = "none"
             /\ batch' = PrefillBatch(tokens)
             /\ nPrompt' = n1
             /\ nDecode' = 1
             /\ nCur' = n1
             /\ IF LoopContinues(n1, mt)
                  THEN /\ pc' = "wrapper"
                       /\ outcome' = "none"
                       /\ batchState' = "allocated"
                  ELSE /\ pc' = "idle"
                       /\ outcome' = "returned"
                       /\ batchState' = "freed"

\* One iteration of the loop of LlamaWrapper::Impl::RunQueryStream, up to
\* the next evaluation of the loop condition, and llama_batch_free when the
\* loop ends.
WrapperDecode(token, rc) ==
  /\ pc = "wrapper"
  /\ LoopContinues(nCur, maxTokens) /\ ~stopGeneration
  /\ op' = "WrapperDecode"
  /\ nSampled' = nSampled + 1
  /\ newToken' = token
  /\ UNCHANGED << program, conversationHistory, prompt, params, logits, history,
                  maxTokens,
                  assistantResponse,
                  currentPiece, argument, historyBefore, nTokens, nPrompt >>
  /\ IF WrapperIsEnd(token)
       THEN \* break; llama_batch_free
            /\ pc' = "idle"
            /\ outcome' = "returned"
            /\ batchState' = "freed"
            /\ UNCHANGED << batch, nCur, generatedText, stopGeneration, stderrMsg,
                            fragments, nDecode, piece, rawText >>
       ELSE LET p == llama_token_to_piece(token, FALSE)
                text == generatedText \o p
                stop == StopFound(text)
                n1 == nCur + 1
            IN
            /\ piece' = p
            /\ rawText' = rawText \o p
            /\ generatedText' = IF stop THEN TruncateAtStop(text) ELSE text
            /\ stopGeneration' = stop
            /\ fragments' = IF stop THEN fragments ELSE Append(fragments, p)
            /\ batch' = StepBatch(token, nCur)
            /\ rc \in llama_decode(StepBatch(token, nCur))
            /\ nCur' = n1
            /\ nDecode' = nDecode + 1
            /\ IF rc # 0
                 THEN \* "Failed to evaluate"; return
                      /\ pc' = "idle"
                      /\ outcome' = "returned"
                      /\ stderrMsg' = "Failed to evaluate"
                      /\ UNCHANGED batchState
               ELSE IF LoopContinues(n1, maxTokens) /\ ~stop
                 THEN /\ pc' = "wrapper"
                      /\ outcome' = "none"
                      /\ UNCHANGED << stderrMsg, batchState >>
                 ELSE /\ pc' = "idle"
                      /\ outcome' = "returned"
                      /\ batchState' = "freed"
                      /\ UNCHANGED stderrMsg

\* ------------------------------------------------------------------------
\* SampleToken on its own
\* ------------------------------------------------------------------------
\* SampleToken applied once to the logits and the SamplingParams drawn by
\* Init; token is what llama_sample_token draws
SampleTokenCall(token) ==
  /\ program = "SampleToken"
  /\ op = "init"
  /\ token \in SampleToken(logits, params)
  /\ newToken' = token
  /\ op' = "SampleToken"
  /\ outcome' = "returned"
  /\ UNCHANGED << program, conversationHistory, pc, prompt, params, logits, history,
                  maxTokens, batch, batchState, nCur, assistantResponse, currentPiece,
                  generatedText, stopGeneration, stderrMsg, argument, historyBefore,
                  nTokens, nPrompt, fragments, nSampled, nDecode, piece, rawText >>

\* ------------------------------------------------------------------------
\* Specification
\* ------------------------------------------------------------------------
SampleTokenStep == \E token \in SamplerVocab : SampleTokenCall(token)

SetSystemPromptStep == \E systemPrompt \in SystemPrompts : SetSystemPrompt(systemPrompt)

PromptStep ==
  \E message \in UserMessages, sp \in SamplingParamsValues, nTok \in TokenizeResults,
     rc \in DecodeResults, ub \in OverflowOutcomes :
       Prompt(message, sp, nTok, rc, ub)

ChatDecodeStep ==
  \E token \in SampledTokens("LlamaChat"), rc \in DecodeResults : ChatDecode(token, rc)

RunQueryStreamStep ==
  \E systemPrompt \in SystemPrompts, hist \in WrapperHistories,
     sp \in SamplingParamsValues, nTok \in TokenizeResults,
     rc \in DecodeResults, ub \in OverflowOutcomes :
       RunQueryStream(systemPrompt, hist, sp, nTok, rc, ub)

WrapperDecodeStep ==
  \E token \in SampledTokens("LlamaWrapper"), rc \in DecodeResults :
    WrapperDecode(token, rc)

Next ==
  \/ SetSystemPromptStep
  \/ ResetConversation
  \/ PromptStep
  \/ ChatDecodeStep
  \/ RunQueryStreamStep
  \/ WrapperDecodeStep
  \/ SampleTokenStep

Spec == Init /\ [][Next]_vars

\* the thread running a generation call keeps running: every engine call
\* and every callback returns
FairSpec ==
  Spec /\ WF_vars(ChatDecodeStep) /\ WF_vars(WrapperDecodeStep)

TypeOK ==
  /\ pc \in {"idle", "chat", "wrapper", "aborted"}
  /\ outcome \in {"none", "returned", "runtime_error", "aborted"}
  /\ batchState \in {"none", "allocated", "freed"}
  /\ nCur \in 0..(MaxMaxTokens + MaxPromptTokens)
  /\ stopGeneration \in BOOLEAN
  /\ newToken \in TokenIds
  /\ \A i \in DOMAIN conversationHistory :
       conversationHistory[i].role \in {"system", "user", "assistant"}

\* ------------------------------------------------------------------------
\* Properties
\* ------------------------------------------------------------------------
\* the user turn a Prompt call adds
UserTurn == [role |-> "user", content |-> argument]

\* a Prompt call has ended by throwing: only llama_decode failures throw
PromptThrew == program = "LlamaChat" /\ pc = "idle" /\ outcome = "runtime_error"

\* a Prompt call has ended by returning
PromptReturned ==
  /\ program = "LlamaChat"
  /\ pc = "idle"
  /\ op \in {"Prompt", "ChatDecode"}
  /\ outcome = "returned"

\* C1: when llama_decode fails in Prompt, during prefill or at a decode
\* step, no assistant turn is appended: the history is the history before
\* the call plus the one user turn, however many fragments were streamed.
C1_NoAssistantTurnAfterDecodeFailure ==
  PromptThrew => conversationHistory = Append(historyBefore, UserTurn)

\* a decode step failed after two fragments had been streamed
C1_Witness == PromptThrew /\ op = "ChatDecode" /\ Len(fragments) >= 2

\* C2: after a Prompt call that failed with an engine error, calling Prompt
\* again with the same user message renders the same prompt text as the
\* failed call rendered.
C2_RetryRendersSamePrompt ==
  [][ (PromptThrew /\ op' = "Prompt" /\ argument' = argument)
        => prompt' = prompt ]_vars

\* the call reported a tokenization failure: by an exception or on std::cerr
TokenizationReported == outcome = "runtime_error" \/ stderrMsg # "none"

\* C3: when llama_tokenize reports a negative count for the rendered
\* prompt, the call fails fast with a tokenization error: llama_decode is
\* not called, the callback is not invoked and the conversation history is
\* left as it was before the call.
C3_TokenizeFailureFailsFast ==
  [][ (op' \in {"Prompt", "RunQueryStream"} /\ nTokens' < 0)
        => /\ pc' = "idle"
           /\ TokenizationReported'
           /\ nDecode' = 0
           /\ fragments' = <<>>
           /\ conversationHistory' = conversationHistory ]_vars

\* C4: when Prompt completes cleanly (the end token was sampled or the
\* position reached maxTokens), exactly one assistant turn is appended
\* right after the user turn, and its content is the in-order concatenation
\* of the fragments passed to the caller's callback during the call.
C4_AssistantTurnIsStreamedText ==
  PromptReturned =>
    conversationHistory =
      historyBefore \o << UserTurn, [role |-> "assistant", content |-> Concat(fragments)] >>

\* a call that streamed a fragment and then sampled the end token
C4_Witness ==
  PromptReturned /\ Len(fragments) >= 1 /\ newToken = TokEot /\ Concat(fragments) # <<>>

\* C5: in every state reachable through SetSystemPrompt, ResetConversation
\* and Prompt calls, failed ones included, the history holds at most one
\* system turn, and it is the first turn if present.
C5_SystemTurnOnlyFirst ==
  \A i \in DOMAIN conversationHistory :
    conversationHistory[i].role = "system" => i = 1

\* a system turn followed by a user and an assistant turn
C5_Witness ==
  /\ Len(conversationHistory) = 3
  /\ conversationHistory[1].role = "system"
  /\ conversationHistory[3].role = "assistant"

\* C6: SetSystemPrompt(text), called on any history, leaves a history of
\* exactly one turn, with role system and content text.
C6_SetSystemPromptLeavesOneTurn ==
  [][ op' = "SetSystemPrompt"
        => conversationHistory' = << [role |-> "system", content |-> argument'] >> ]_vars

\* SetSystemPrompt was called on a history with user and assistant turns
C6_Witness ==
  /\ op = "SetSystemPrompt"
  /\ Len(historyBefore) >= 2
  /\ \E i \in DOMAIN historyBefore : historyBefore[i].role = "assistant"
  /\ Len(conversationHistory) = 1

\* C7: whenever the sampled token is in the engine's end-of-generation
\* set, the decode loop stops cleanly at that step: no fragment is passed to
\* the callback for it, the token is not fed to the engine and no further
\* token is sampled.
C7_EndOfGenerationStopsLoop ==
  [][ (op' \in {"ChatDecode", "WrapperDecode"} /\ llama_token_is_eog(newToken'))
        => /\ pc' = "idle"
           /\ outcome' = "returned"
           /\ fragments' = fragments
           /\ nDecode' = nDecode
           /\ nCur' = nCur ]_vars

Max0(x) == IF x > 0 THEN x ELSE 0

InLoop == pc \in {"chat", "wrapper"}

\* C8: when every engine call and callback returns, each generation call
\* terminates, and the number of tokens sampled in one call is at most
\* max(0, maxTokens - N), N being the number of prompt tokens of the prefill.
C8_CallTerminatesWithinBudget ==
  /\ [](nSampled <= Max0(maxTokens - nPrompt))
  /\ (InLoop ~> ~InLoop)

\* a call that ended having sampled its whole budget of two tokens
C8_Witness ==
  /\ pc = "idle"
  /\ outcome = "returned"
  /\ nSampled >= 2
  /\ nSampled = maxTokens - nPrompt

StopMarkers == {UserMarker, AssistantMarker}

HasStopMarker(text) == \E m \in StopMarkers : Find(text, m) # Npos

ControlTokenTexts == {BeginOfText, EndOfText, StartHeaderId, EndHeaderId, EotId}

HasControlText(text) == \E c \in ControlTokenTexts : Find(text, c) # Npos

\* C10: in LlamaChat::Prompt no fragment passed to the caller's callback
\* contains the text of a special control token, and decoding a piece with
\* such text does not end the decode loop: its token is fed to the engine
\* and the loop goes on while the position is below maxTokens.
C10_ControlTextSuppressedLoopGoesOn ==
  [][ /\ \A i \in DOMAIN fragments' : ~HasControlText(fragments'[i])
      /\ (op' = "ChatDecode" /\ newToken' # eotToken /\ HasControlText(piece')
          /\ outcome' # "runtime_error")
           => /\ nDecode' = nDecode + 1
              /\ nCur' = nCur + 1
              /\ (nCur' < maxTokens => pc' = "chat") ]_vars

\* a piece with control token text was decoded and the loop is still running
C10_Witness ==
  /\ op = "ChatDecode"
  /\ HasControlText(piece)
  /\ pc = "chat"
  /\ fragments = <<>>

\* C11: the special-token check scans the accumulated text, so the text of
\* a special control token split across two consecutive pieces is detected:
\* the in-order concatenation of everything passed to the callback never
\* contains the text of a special control token.
C11_StreamedTextHasNoControlText ==
  program = "LlamaChat" => ~HasControlText(Concat(fragments))

\* a sampling configuration a sampler can honour: topP in (0, 1] and a
\* temperature that is not negative (hundredths)
ValidSamplingConfig(sp) == sp.topP > 0 /\ sp.topP <= 100 /\ sp.temperature >= 0

\* the last step belongs to a generation call
GenerationCall == op \in {"Prompt", "ChatDecode", "RunQueryStream", "WrapperDecode"}

\* C12: a generation call with an invalid sampling configuration (topP
\* outside (0,1] or a negative temperature) is rejected before any engine
\* call: llama_decode and SampleToken are never called for it and the
\* conversation history stays as it was before the call.
C12_InvalidConfigRejectedBeforeEngine ==
  (GenerationCall /\ ~ValidSamplingConfig(params)) =>
    /\ nDecode = 0
    /\ nSampled = 0
    /\ conversationHistory = historyBefore

\* llama_decode failed at a decode step of the last call: LlamaChat throws,
\* LlamaWrapper writes "Failed to evaluate" to std::cerr
DecodeStepFailed ==
  \/ op = "ChatDecode" /\ outcome = "runtime_error"
  \/ op = "WrapperDecode" /\ stderrMsg = "Failed to evaluate"

\* C13: when llama_decode fails at a decode step after fragments were
\* streamed, the call ends and reports an engine error to its caller (with
\* the fragments streamed so far as a partial result).
C13_DecodeFailureReportedToCaller ==
  (DecodeStepFailed /\ Len(fragments) >= 1) => outcome = "runtime_error"

\* the block the chat template gives one turn: role header, content, end
\* marker
TurnBlock(m) ==
  StartHeaderId \o RoleText[m.role] \o EndHeaderId \o m.content \o EotId

\* the open assistant header
AssistantOpenHeader == StartHeaderId \o RoleText["assistant"] \o EndHeaderId

\* text ends with suffix
EndsWith(text, suffix) ==
  /\ Len(text) >= Len(suffix)
  /\ SubSeq(text, Len(text) - Len(suffix) + 1, Len(text)) = suffix

\* C14: the rendered prompt holds one block per turn of the history, in
\* insertion order, followed by the open assistant header, in which the
\* prompt ends.  For LlamaChat the history is the one Prompt renders (the
\* history before the call and the new user turn); for LlamaWrapper it is
\* the history argument, and the content of each of its turns is in the
\* prompt.
C14_PromptRendersEveryTurn ==
  /\ (program = "LlamaChat" /\ op = "Prompt") =>
       LET hist == Append(historyBefore, UserTurn)
       IN prompt = BeginOfText
                   \o Concat([i \in 1..Len(hist) |-> TurnBlock(hist[i])])
                   \o AssistantOpenHeader
  /\ (program = "LlamaWrapper" /\ op = "RunQueryStream") =>
       /\ EndsWith(prompt, <<"A", "s", "s", "i", "s", "t", "a", "n", "t", ":", " ">>)
       /\ \A i \in DOMAIN history : Find(prompt, history[i][2]) # Npos

\* C15: with topK = 1 the token SampleToken returns has the maximum score
\* among the candidates entering the top-k stage (the logit, adjusted by
\* the penalties when the penalty window is not empty), whatever topP and
\* temperature are.
C15_TopK1ReturnsMaxScore ==
  (program = "SampleToken" /\ op = "SampleToken" /\ params.topK = 1) =>
    \A id \in SamplerVocab :
      PenalisedScore(logits, params)[newToken] >= PenalisedScore(logits, params)[id]

\* SampleToken returned with topK = 1, a topP above 1, a negative
\* temperature and a penalty window that moves the maximum off the token
\* of highest logit
C15_Witness ==
  /\ program = "SampleToken" /\ op = "SampleToken"
  /\ params.topK = 1 /\ params.topP = 150 /\ params.temperature = -10
  /\ params.repeatPenaltyTokens # <<>>
  /\ \E id \in SamplerVocab : logits[id] > logits[newToken]

\* the last step submitted the prefill batch to llama_decode
PrefillSubmitted ==
  op \in {"Prompt", "RunQueryStream"} /\ nDecode = 1 /\ batch # <<>>

\* C16: in prefill the N prompt tokens are submitted in one llama_decode
\* call at positions 0..N-1, with the logits flag set for position N-1 and
\* for no other position.
C16_PrefillLogitsOnlyLast ==
  PrefillSubmitted =>
    /\ Len(batch) = nPrompt
    /\ \A i \in DOMAIN batch :
         /\ batch[i].pos = i - 1
         /\ batch[i].logits <=> (i = Len(batch))

\* the prefill of the last generation call succeeded
PrefillDone ==
  /\ GenerationCall
  /\ nDecode >= 1
  /\ ~(op = "Prompt" /\ outcome = "runtime_error")
  /\ stderrMsg # "llama_decode() failed"

\* the last step sampled a token that is not the end token and fed it
TokenFed ==
  \/ op = "ChatDecode" /\ ~ChatIsEnd(newToken)
  \/ op = "WrapperDecode" /\ ~WrapperIsEnd(newToken)

\* C17: within a generation call the position cursor is the number of
\* tokens fed to the engine: the N prompt tokens and the tokens fed by the
\* loop (one llama_decode call each); the k-th sampled token, if it is not
\* the end token, is fed as a one-token batch at position N + k - 1 with
\* the logits flag set.
C17_CursorCountsFedTokens ==
  PrefillDone =>
    /\ nCur = nPrompt + (nDecode - 1)
    /\ TokenFed =>
         /\ nDecode - 1 = nSampled
         /\ batch = << [id |-> newToken, pos |-> nPrompt + nSampled - 1,
                        logits |-> TRUE] >>

\* the second sampled token has been fed
C17_Witness == PrefillDone /\ TokenFed /\ nSampled = 2 /\ batch[1].pos = nPrompt + 1

\* C18: in LlamaChat's loop the suppression of a piece that holds the text
\* of a special control token affects that piece only: a later decoded
\* piece that is not empty and holds no such text is passed to the
\* callback (and so reaches the assistant turn).
C18_LaterPieceStillDelivered ==
  [][ ( /\ program = "LlamaChat"
        /\ op' = "ChatDecode"
        /\ nSampled' = nSampled + 1
        /\ ~ChatIsEnd(newToken')
        /\ piece' # <<>>
        /\ ~HasControlText(piece') )
      => ( /\ Len(fragments') = Len(fragments) + 1
           /\ Find(fragments'[Len(fragments')], piece') # Npos ) ]_vars

\* a call of LlamaWrapper::RunQueryStream has ended after its loop: on a
\* stop sequence, on the end token or on maxTokens
WrapperGenerationEnded ==
  /\ program = "LlamaWrapper"
  /\ op = "WrapperDecode"
  /\ pc = "idle"
  /\ stderrMsg = "none"

\* C19: when generation ends in LlamaWrapper::RunQueryStream, the in-order
\* concatenation of the fragments passed to the callback is the final
\* accumulated text after truncation: the caller is shown no character at
\* or after the start of the stop sequence that was found.
C19_StreamedTextIsTruncatedText ==
  WrapperGenerationEnded => Concat(fragments) = generatedText

\* C20: after generation stops on a stop sequence in
\* LlamaWrapper::RunQueryStream, the truncated accumulated text holds
\* neither "\nUser:" nor "\nAssistant:".
C20_TruncatedTextHasNoStopMarker ==
  (program = "LlamaWrapper" /\ stopGeneration) => ~HasStopMarker(generatedText)

\* C21: the number of tokens put in the batch never exceeds the capacity
\* the batch was allocated with, llama_batch_init(maxTokens): prefill adds
\* at most maxTokens tokens and a decode step holds one token.
C21_BatchWithinCapacity ==
  (GenerationCall /\ batchState # "none") => Len(batch) <= maxTokens

\* a generation call that allocated a batch has ended and control is back
\* with the caller
CallEndedWithBatch ==
  GenerationCall /\ pc = "idle" /\ batchState # "none"

\* C22: the batch a generation call allocates with llama_batch_init is
\* released with llama_batch_free on every exit path of the call: clean
\* completion, prefill failure and decode-step failure.
C22_BatchFreedOnEveryExit ==
  CallEndedWithBatch => batchState = "freed"
====
